---- MODULE Spec2Model ----
(***************************************************************************)
(* A model of the hierarchical modelling tool: the scene graph of          *)
(* model.cpp (model_node, model_t), the mesh generators of shape.cpp and   *)
(* the keyboard handler of main.cpp.                                       *)
(*                                                                         *)
(* Numbers.  Every float of the program is an IEEE-754 binary32 value and  *)
(* is modelled exactly: a float is the pair <<m, e>> that stands for       *)
(* m * 2^e, with m odd (or <<0, 0>> for zero), |m| < 2^24.  Sums and       *)
(* products round to nearest, ties to even, as the hardware does.  The     *)
(* sign of zero, infinities, NaN and subnormals are left out: no value of  *)
(* the model comes near the ends of the exponent range, and the program    *)
(* compares and prints floats in ways that do not tell -0 from 0 apart     *)
(* once the text is read back.                                             *)
(*                                                                         *)
(* Text.  A number written to a file is the pair <<d, k>> that stands for  *)
(* the decimal text of d * 10^k, d having no trailing zero digit.          *)
(***************************************************************************)
EXTENDS Integers, Sequences, FiniteSets, TLC

(***************************************************************************)
(* Integer helpers                                                         *)
(***************************************************************************)
Abs(x) == IF x < 0 THEN -x ELSE x

Sgn(x) == IF x < 0 THEN -1 ELSE 1

\* the number of bits of x, 0 <= x < 2^8
BitLen8(x) ==
  IF x < 16
  THEN (IF x < 4 THEN (IF x < 2 THEN x ELSE 2) ELSE IF x < 8 THEN 3 ELSE 4)
  ELSE (IF x < 64 THEN (IF x < 32 THEN 5 ELSE 6) ELSE IF x < 128 THEN 7 ELSE 8)

\* the number of bits of x, 0 <= x < 2^31
BitLen(x) ==
  LET k == IF x < 256 THEN 0
           ELSE IF x < 65536 THEN 8
           ELSE IF x < 16777216 THEN 16 ELSE 24
  IN k + BitLen8(x \div 2^k)

\* q, the kept part of a magnitude, moved to the nearest value given the
\* dropped part r out of 2 * half; a tie goes to the even neighbour
RoundEven(q, r, half) ==
  IF r > half \/ (r = half /\ q % 2 = 1) THEN q + 1 ELSE q

(***************************************************************************)
(* binary32 arithmetic                                                     *)
(***************************************************************************)
FZero == <<0, 0>>

FOne == <<1, 0>>

\* <<m, e>> with the factors of two moved from m into e
FShift(a, bits) ==
  IF a[1] % (2^bits) = 0 THEN <<a[1] \div (2^bits), a[2] + bits>> ELSE a

FNorm(m, e) ==
  IF m = 0 THEN FZero
  ELSE IF m % 2 # 0 THEN <<m, e>>
  ELSE FShift(FShift(FShift(FShift(FShift(<<m, e>>, 16), 8), 4), 2), 1)

\* s * a * 2^e with the low sh bits of the magnitude a rounded away
FRoundBy(s, a, e, sh) ==
  FNorm(s * (IF sh = 0 THEN a
             ELSE RoundEven(a \div 2^sh, a % 2^sh, 2^(sh - 1))),
        e + sh)

\* s * a * 2^e for a magnitude 0 <= a < 2^31, rounded to 24 significant bits
FRound(s, a, e) ==
  FRoundBy(s, a, e, IF BitLen(a) <= 24 THEN 0 ELSE BitLen(a) - 24)

FNeg(a) == <<-a[1], a[2]>>

\* hi with a sticky bit for what lies below it
Jam(hi) == IF hi % 2 = 1 THEN hi ELSE hi + 1

\* sum * 2^e for a whole number sum, |sum| < 2^31, rounded to 24
\* significant bits
FRoundSigned(sum, e) == FRound(Sgn(sum), Abs(sum), e)

\* a + b for nonzero a, b with d = b[2] - a[2] >= 0, the low k bits of a
\* being folded into a sticky bit first
FAddDrop(a, b, d, k) ==
  FRoundSigned(IF k = 0 THEN b[1] * 2^d + a[1]
               ELSE b[1] * 2^(d - k)
                    + Sgn(a[1]) * Jam(IF k > 30 THEN 0 ELSE Abs(a[1]) \div 2^k),
               a[2] + k)

\* a + b for nonzero a, b with a[2] <= b[2].  When the exact sum does not
\* fit 31 bits, the bits of a beyond them are dropped into the sticky bit.
FAddOrd(a, b) ==
  FAddDrop(a, b, b[2] - a[2],
           IF BitLen(Abs(b[1])) + b[2] - a[2] <= 30 THEN 0
           ELSE BitLen(Abs(b[1])) + b[2] - a[2] - 30)

FAdd(a, b) == IF a[1] = 0 THEN b
              ELSE IF b[1] = 0 THEN a
              ELSE FAddOrd(IF a[2] <= b[2] THEN a ELSE b,
                           IF a[2] <= b[2] THEN b ELSE a)

FSub(a, b) == FAdd(a, FNeg(b))

\* s * (H * 2^24 + lo) * 2^e for H < 2^24 of n bits and lo < 2^24, rounded
\* to 24 significant bits
FRoundWide(s, H, lo, e, n) ==
  FNorm(s * (IF H = 0 THEN lo
             ELSE RoundEven(H * 2^(24 - n) + lo \div 2^n, lo % 2^n, 2^(n - 1))),
        e + n)

\* s * (hh * 2^24 + L) * 2^e, where L may exceed 24 bits
FMulCarry(s, hh, L, e) ==
  FRoundWide(s, hh + L \div 16777216, L % 16777216, e,
             BitLen(hh + L \div 16777216))

\* the 48-bit product from the products of the 12-bit halves
FMulHalves(s, hh, mid, ll, e) ==
  FMulCarry(s, hh + mid \div 4096, ll + (mid % 4096) * 4096, e)

\* s * x * y * 2^e when the product needs more than 31 bits: the 48-bit
\* product is built from 12-bit halves
FMulBig(s, x, y, e) ==
  FMulHalves(s, (x \div 4096) * (y \div 4096),
             (x \div 4096) * (y % 4096) + (x % 4096) * (y \div 4096),
             (x % 4096) * (y % 4096), e)

FMul(a, b) ==
  IF a[1] = 0 \/ b[1] = 0 THEN FZero
  ELSE IF a = FOne THEN b
  ELSE IF b = FOne THEN a
  ELSE IF BitLen(Abs(a[1])) + BitLen(Abs(b[1])) <= 30
       THEN FRoundSigned(a[1] * b[1], a[2] + b[2])
       ELSE FMulBig(Sgn(a[1]) * Sgn(b[1]), Abs(a[1]), Abs(b[1]), a[2] + b[2])

FAbs(a) == <<Abs(a[1]), a[2]>>

\* a <= b
FLeq(a, b) == FSub(b, a)[1] >= 0

\* num / n * 2^e for a magnitude num < 2^30
FDivRound(s, num, n, e) ==
  FRound(s, 2 * (num \div n) + (IF num % n = 0 THEN 0 ELSE 1), e - 1)

\* a / n for a whole number n, 1 <= n <= 15
FDivInt(a, n) ==
  IF n = 1 \/ a[1] = 0 THEN a
  ELSE FDivRound(Sgn(a[1]), Abs(a[1]) * 2^(30 - BitLen(Abs(a[1]))), n,
                 a[2] - (30 - BitLen(Abs(a[1]))))

(***************************************************************************)
(* Decimal text of a float: operator<< with the stream's default           *)
(* precision of 6 significant digits (the %g conversion, which rounds the  *)
(* exact value, ties to even), and operator>> back.  The exact decimal     *)
(* digits of m * 2^-q are those of the integer m * 5^q, kept in limbs of   *)
(* four digits, lowest limb first.                                         *)
(***************************************************************************)
RECURSIVE StripZeros(_, _)
StripZeros(d, k) == IF d = 0 THEN <<0, 0>>
                    ELSE IF d % 10 # 0 THEN <<d, k>>
                    ELSE StripZeros(d \div 10, k + 1)

RECURSIVE MulLimbs(_, _, _, _)
\* the limbs ls[i..] times f, plus the carry c
MulLimbs(ls, f, i, c) ==
  IF i > Len(ls) THEN (IF c = 0 THEN <<>> ELSE <<c>>)
  ELSE LET cur == ls[i] * f + c
       IN <<cur % 10000>> \o MulLimbs(ls, f, i + 1, cur \div 10000)

RECURSIVE TimesPow5(_, _)
TimesPow5(ls, q) ==
  IF q = 0 THEN ls
  ELSE IF q < 5 THEN MulLimbs(ls, 5^q, 1, 0)
  ELSE LET h == MulLimbs(ls, 3125, 1, 0)
       IN IF Len(h) = 0 THEN h ELSE TimesPow5(h, q - 5)

\* the limbs of n, 0 < n < 2^31
LimbsOf(n) ==
  IF n < 10000 THEN <<n>>
  ELSE IF n < 100000000 THEN <<n % 10000, n \div 10000>>
  ELSE <<n % 10000, (n \div 10000) % 10000, n \div 100000000>>

\* the decimal digit of weight 10^j
LimbDigit(ls, j) ==
  IF j < 0 \/ j \div 4 + 1 > Len(ls) THEN 0
  ELSE (ls[j \div 4 + 1] \div 10^(j % 4)) % 10

LimbDigitCount(ls) ==
  LET top == ls[Len(ls)]
  IN 4 * (Len(ls) - 1)
     + (IF top < 10 THEN 1 ELSE IF top < 100 THEN 2 ELSE IF top < 1000 THEN 3 ELSE 4)

\* the integer of limbs ls times 10^k, rounded to 6 significant digits
RoundSix(ls, k) ==
  LET nd   == LimbDigitCount(ls)
      drop == IF nd > 6 THEN nd - 6 ELSE 0
      kept == LimbDigit(ls, drop) + 10 * LimbDigit(ls, drop + 1)
              + 100 * LimbDigit(ls, drop + 2) + 1000 * LimbDigit(ls, drop + 3)
              + 10000 * LimbDigit(ls, drop + 4) + 100000 * LimbDigit(ls, drop + 5)
      nxt  == LimbDigit(ls, drop - 1)
      rest == \E j \in 0..(drop - 2) : LimbDigit(ls, j) # 0
      up   == nxt > 5 \/ (nxt = 5 /\ (rest \/ kept % 2 = 1))
  IN StripZeros(IF up THEN kept + 1 ELSE kept, k + drop)

FormatFloat(a) ==
  IF a[1] = 0 THEN <<0, 0>>
  ELSE LET r == IF a[2] >= 0
                THEN RoundSix(LimbsOf(Abs(a[1]) * 2^a[2]), 0)
                ELSE RoundSix(TimesPow5(LimbsOf(Abs(a[1])), -a[2]), a[2])
       IN <<Sgn(a[1]) * r[1], r[2]>>

RECURSIVE QuotientBits(_, _, _, _)
\* the bits of r / den appended to the magnitude m, a few at a time, until
\* m has 25 bits or more or the remainder is 0:
\* <<m, number of bits appended, remainder>>
QuotientBits(m, r, den, taken) ==
  IF r = 0 \/ BitLen(m) >= 25 THEN <<m, taken, r>>
  ELSE LET k  == IF BitLen(den) <= 26 THEN 5 ELSE 31 - BitLen(den)
           rk == r * 2^k
       IN QuotientBits(m * 2^k + rk \div den, rk % den, den, taken + k)

\* the float nearest to the decimal text d * 10^k (k >= -9, |value| < 2^24)
ParseFloat(t) ==
  LET d == Abs(t[1])
      k == t[2]
  IN IF d = 0 THEN FZero
     ELSE IF k >= 0 THEN FRound(Sgn(t[1]), d * 10^k, 0)
     ELSE LET den == 10^(-k)
              qb  == QuotientBits(d \div den, d % den, den, 0)
          IN IF qb[3] = 0 THEN FRound(Sgn(t[1]), qb[1], -qb[2])
             ELSE FRound(Sgn(t[1]), 2 * qb[1] + 1, -qb[2] - 1)

(***************************************************************************)
(* Vectors and matrices of glm.  A mat4 is the tuple of its four columns,  *)
(* m[c][r] being column c, row r (glm is column-major; indices from 1).    *)
(* The operators are defined for operands of the right size; the test of   *)
(* the size also has TLC evaluate an operand before it is used, which      *)
(* keeps the evaluation of a chain of products shallow.                    *)
(***************************************************************************)
Vec3Zero == <<FZero, FZero, FZero>>

VecNeg(v) == <<FNeg(v[1]), FNeg(v[2]), FNeg(v[3])>>

\* vec4 + vec4 and vec4 * float
Vec4Add(u, v) ==
  CASE Len(u) = 4 /\ Len(v) = 4 -> [i \in 1..4 |-> FAdd(u[i], v[i])]

Vec4Mul(u, f) ==
  CASE Len(u) = 4 /\ Len(f) = 2 -> [i \in 1..4 |-> FMul(u[i], f)]

\* glm::mat4(1.0f)
Mat4Identity == << <<FOne, FZero, FZero, FZero>>, <<FZero, FOne, FZero, FZero>>,
                   <<FZero, FZero, FOne, FZero>>, <<FZero, FZero, FZero, FOne>> >>

RECURSIVE SumLeft(_, _)
\* P[1] + P[2] + ... + P[k], summed from the left
SumLeft(P, k) == IF k = 1 THEN P[1] ELSE Vec4Add(SumLeft(P, k - 1), P[k])

\* a[0]*v[0] + a[1]*v[1] + ... over the first n columns of a, summed from
\* the left
ColumnSum(a, v, n) == SumLeft([k \in 1..n |-> Vec4Mul(a[k], v[k])], n)

\* one column of mat4 * mat4: a[0]*v[0] + a[1]*v[1] + a[2]*v[2] + a[3]*v[3]
MatCol(a, v) ==
  CASE Len(a) = 4 /\ Len(v) = 4 -> ColumnSum(a, v, 4)

\* mat4 * mat4.  With the identity as an operand every sum of a column is
\* one entry plus zeros, which is that entry exactly, so the other operand
\* is the product.
MatMul(a, b) ==
  CASE Len(a) = 4 /\ Len(b) = 4 ->
    IF a = Mat4Identity THEN b
    ELSE IF b = Mat4Identity THEN a
    ELSE [j \in 1..4 |-> MatCol(a, b[j])]

\* (P[1] + P[2]) + (P[3] + P[4])
SumPairs(P) ==
  Vec4Add([i \in 1..4 |-> FAdd(P[1][i], P[2][i])],
          [i \in 1..4 |-> FAdd(P[3][i], P[4][i])])

\* mat4 * vec4, which glm sums in pairs
MatVec(m, v) ==
  CASE Len(m) = 4 /\ Len(v) = 4 ->
    SumPairs([k \in 1..4 |-> Vec4Mul(m[k], v[k])])

\* glm::translate
translate(m, v) ==
  CASE Len(m) = 4 /\ Len(v) = 3 ->
    [m EXCEPT ![4] = Vec4Add(ColumnSum(m, v, 3), m[4])]

\* glm::scale
scale(m, v) ==
  CASE Len(m) = 4 /\ Len(v) = 3 ->
    [j \in 1..4 |-> IF j = 4 THEN m[4] ELSE Vec4Mul(m[j], v[j])]

\* the float nearest to pi / 180, and glm::radians
DegToRad == <<9370165, -29>>

radians(deg) == FMul(deg, DegToRad)

TenDegrees == <<5, 1>>

\* cosf and sinf of the C library at the two angles the program uses,
\* radians(10.0f) and radians(-10.0f)
Cos10 == <<4130583, -22>>

Sin10 == <<2913333, -24>>

cos(a) == CASE FAbs(a) = radians(TenDegrees) -> Cos10

sin(a) == CASE a = radians(TenDegrees) -> Sin10
            [] a = radians(FNeg(TenDegrees)) -> FNeg(Sin10)

\* the 3x3 matrix Rotate of glm::rotate from c, s and temp = (1 - c) * axis:
\* Rotate[i][i] = c + temp[i] * axis[i]; off the diagonal Rotate[i][j] =
\* temp[i] * axis[j] + s * axis[k] for (i, j) = (0, 1), (1, 2), (2, 0) and
\* temp[i] * axis[j] - s * axis[k] for the others, k being the third index
RotateMatrix(c, s, temp, axis) ==
  [i \in 1..3 |-> [j \in 1..3 |->
     FAdd(FMul(temp[i], axis[j]),
          IF i = j THEN c
          ELSE FMul(IF j = (i % 3) + 1 THEN s ELSE FNeg(s), axis[6 - i - j]))]]

\* Result[j] = m[0] * Rotate[j][0] + m[1] * Rotate[j][1] + m[2] * Rotate[j][2]
RotateBy(m, R) ==
  [j \in 1..4 |-> IF j = 4 THEN m[4] ELSE ColumnSum(m, R[j], 3)]

\* temp = (1 - c) * axis
RotateTemp(t, axis) == [i \in 1..3 |-> FMul(t, axis[i])]

\* glm::rotate with c = cos(angle) and s = sin(angle)
RotateWith(m, c, s, axis) ==
  RotateBy(m, RotateMatrix(c, s, RotateTemp(FSub(FOne, c), axis), axis))

\* glm::rotate for an axis of unit length (normalize leaves it as it is)
rotate(m, angle, axis) ==
  CASE Len(m) = 4 /\ Len(angle) = 2 /\ Len(axis) = 3 ->
    RotateWith(m, cos(angle), sin(angle), axis)

\* the unit vector of axis_mode 1, 2, 3
AxisVec(axis) == <<IF axis = 1 THEN FOne ELSE FZero, IF axis = 2 THEN FOne ELSE FZero,
                   IF axis = 3 THEN FOne ELSE FZero>>

(***************************************************************************)
(* shape.cpp: the mesh generators.  Of a mesh the model keeps the length   *)
(* of the vertex list; every loop iteration of a generator pushes a fixed  *)
(* number of vertices.  A loop over lo..hi-1 is unfolded by halving its    *)
(* range, which visits the same iterations in the same order.              *)
(***************************************************************************)
SPHERE_SHAPE == 0

CYLINDER_SHAPE == 1

BOX_SHAPE == 2

CONE_SHAPE == 3

ShapeTypes == {SPHERE_SHAPE, CYLINDER_SHAPE, BOX_SHAPE, CONE_SHAPE}

\* a variant that clamps to level 3
shape_t_clamp3(tessLevel) == IF tessLevel > 4 THEN 3 ELSE tessLevel

\* shape_t::shape_t: the level kept by the shape
shape_t(tessLevel) == IF tessLevel > 4 THEN 4 ELSE tessLevel

RECURSIVE PushLoop(_, _, _, _)
\* vertices.size() after the iterations lo..hi-1 of a loop whose body
\* pushes `per` vertices, n being the size before
PushLoop(lo, hi, n, per) ==
  IF lo >= hi THEN n
  ELSE IF hi = lo + 1 THEN n + per
  ELSE LET mid  == (lo + hi) \div 2
           left == PushLoop(lo, mid, n, per)
       IN IF left < 0 THEN left ELSE PushLoop(mid, hi, left, per)

RECURSIVE StackLoop(_, _, _, _)
\* the outer loop of makeSphere: each stack runs the loop over the slices,
\* which pushes the two triangles of a quad
StackLoop(lo, hi, n, slices) ==
  IF lo >= hi THEN n
  ELSE IF hi = lo + 1 THEN PushLoop(0, slices, n, 6)
  ELSE LET mid  == (lo + hi) \div 2
           left == StackLoop(lo, mid, n, slices)
       IN IF left < 0 THEN left ELSE StackLoop(mid, hi, left, slices)

makeSphere(level) ==
  LET stacks == IF 6 * 2^level < 6 THEN 6 ELSE 6 * 2^level
      slices == IF 6 * 2^level < 6 THEN 6 ELSE 6 * 2^level
  IN StackLoop(0, stacks, 0, slices)

\* the side quads (6 vertices a slice), then the caps (3 + 3 a slice)
makeCylinder(level) ==
  LET slices == IF 8 * 2^level < 8 THEN 8 ELSE 8 * 2^level
  IN PushLoop(0, slices, PushLoop(0, slices, 0, 6), 6)

\* six faces of two triangles
makeBox == PushLoop(0, 6, 0, 6)

\* a variant that pushes a side triangle and one base vertex a slice
makeCone_open(level) ==
  LET slices == IF 8 * 2^level < 8 THEN 8 ELSE 8 * 2^level
  IN PushLoop(0, slices, 0, 4)

\* a side triangle and a base triangle a slice
makeCone(level) ==
  LET slices == IF 8 * 2^level < 8 THEN 8 ELSE 8 * 2^level
  IN PushLoop(0, slices, 0, 6)

\* the generators are pure: their results for the levels a shape can keep
MeshSize ==
  [t \in ShapeTypes |->
     [l \in 0..4 |-> CASE t = SPHERE_SHAPE   -> makeSphere(l)
                       [] t = CYLINDER_SHAPE -> makeCylinder(l)
                       [] t = BOX_SHAPE      -> makeBox
                       [] t = CONE_SHAPE     -> makeCone(l)]]

\* the constructors: a shape object is its type, its level and the length
\* of its vertex list
sphere_t(tessLevel) ==
  [shapetype |-> SPHERE_SHAPE, level |-> shape_t(tessLevel),
   nverts |-> MeshSize[SPHERE_SHAPE][shape_t(tessLevel)]]

cylinder_t(tessLevel) ==
  [shapetype |-> CYLINDER_SHAPE, level |-> shape_t(tessLevel),
   nverts |-> MeshSize[CYLINDER_SHAPE][shape_t(tessLevel)]]

box_t(tessLevel) ==
  [shapetype |-> BOX_SHAPE, level |-> shape_t(tessLevel),
   nverts |-> MeshSize[BOX_SHAPE][shape_t(tessLevel)]]

cone_t(tessLevel) ==
  [shapetype |-> CONE_SHAPE, level |-> shape_t(tessLevel),
   nverts |-> MeshSize[CONE_SHAPE][shape_t(tessLevel)]]

(***************************************************************************)
(* The state.  Objects live in heaps indexed by their addresses, which are *)
(* positive integers; a deleted object leaves its heap, and a new one      *)
(* takes the lowest free address.                                          *)
(***************************************************************************)
VARIABLES
  nodes,         \* the model_node objects: address -> [shape, translation,
                 \*   rotation, scale, color, parent, children]
  shapes,        \* the shape_t objects: address -> [shapetype, level, nverts]
  model,         \* the model_t object [root, all_nodes, owned_shapes], or
                 \*   NoModel when there is none (current_model of main.cpp)
  file,          \* the model file written last, [exists, lines], or NoFile
  app_mode,      \* main.cpp: the mode of the editor
  trans_mode,    \* main.cpp: the transform mode
  axis_mode,     \* main.cpp: the axis, 0 for none
  current_node,  \* main.cpp: the selected node, or NULL
  deltas,        \* history: how many + and - keys have changed a matrix
  last_op,       \* history: the last operation that had an effect
  saved,         \* history: the nodes that the last save wrote, in the
                 \*   order of their lines
  requested,     \* history: the tessLevel that the constructor of each
                 \*   shape made on its own was called with
  other          \* a second model_t object of a caller that has two, or
                 \*   NoModel; its nodes and shapes are in the same heaps

vars == <<nodes, shapes, model, file, app_mode, trans_mode, axis_mode,
          current_node, deltas, last_op, saved, requested, other>>

NULL == 0

\* a file that does not open
NoFile == [exists |-> FALSE, lines |-> <<>>]

\* no model_t object: current_model is the null pointer
NoModel == [root |-> NULL, all_nodes |-> <<>>, owned_shapes |-> <<>>]

\* glm::vec4(1.0f, 1.0f, 1.0f, 1.0f)
White == <<FOne, FOne, FOne, FOne>>

\* the lowest address not in use in heap h
Fresh(h) == CHOOSE i \in 1..(Cardinality(DOMAIN h) + 1) :
              i \notin DOMAIN h /\ \A j \in 1..(i - 1) : j \in DOMAIN h

\* the heap h without the objects at the addresses in S
Free(h, S) == [x \in DOMAIN h \ S |-> h[x]]

\* the index from 1 of the first x in seq, or 0
IndexOf(seq, x) ==
  IF \E i \in 1..Len(seq) : seq[i] = x
  THEN CHOOSE i \in 1..Len(seq) : seq[i] = x /\ \A j \in 1..(i - 1) : seq[j] # x
  ELSE 0

\* std::remove + erase
Erase(seq, x) == SelectSeq(seq, LAMBDA y : y # x)

(***************************************************************************)
(* model.cpp: model_node.  ns is the heap of nodes.                        *)
(***************************************************************************)
\* a variant that lists the child twice
add_child_twice(ns, p, c) ==
  [ns EXCEPT ![p].children = Append(Append(@, c), c), ![c].parent = p]

add_child(ns, p, c) ==
  [ns EXCEPT ![p].children = Append(@, c), ![c].parent = p]

\* a variant that leaves the list of children as it is
remove_child_kept(ns, p, c) == ns

remove_child(ns, p, c) ==
  [ns EXCEPT ![p].children = Erase(@, c)]

\* the constructor, for a new node at address id
model_node(ns, id, s, p) ==
  LET n   == [shape |-> s, translation |-> Mat4Identity, rotation |-> Mat4Identity,
              scale |-> Mat4Identity, color |-> White, parent |-> p,
              children |-> <<>>]
      ns1 == [x \in DOMAIN ns \cup {id} |-> IF x = id THEN n ELSE ns[x]]
  IN IF p # NULL THEN add_child(ns1, p, id) ELSE ns1

local_matrix(ns, n) ==
  MatMul(MatMul(ns[n].translation, ns[n].rotation), ns[n].scale)

RECURSIVE get_world_matrix(_, _)
\* a variant that multiplies the local matrix from the left
get_world_matrix_local_first(ns, n) ==
  IF ns[n].parent # NULL
  THEN MatMul(local_matrix(ns, n), get_world_matrix(ns, ns[n].parent))
  ELSE local_matrix(ns, n)

get_world_matrix(ns, n) ==
  IF ns[n].parent # NULL
  THEN MatMul(get_world_matrix(ns, ns[n].parent), local_matrix(ns, n))
  ELSE local_matrix(ns, n)

RECURSIVE collect(_, _)
RECURSIVE CollectEach(_, _, _)
\* the loop of collect over the children cs[i..]
CollectEach(ns, cs, i) ==
  IF i > Len(cs) THEN <<>> ELSE collect(ns, cs[i]) \o CollectEach(ns, cs, i + 1)

\* what collect appends to out: the node, then its children's subtrees
collect(ns, n) == <<n>> \o CollectEach(ns, ns[n].children, 1)

Range(seq) == {seq[i] : i \in 1..Len(seq)}

\* the destructor: delete n deletes the subtree of n
DeleteNode(ns, n) == Free(ns, Range(collect(ns, n)))

(***************************************************************************)
(* model.cpp: model_t.  W is the record [nodes, shapes, model] of the two  *)
(* heaps and the model_t object; an operation gives the W it leaves, with  *)
(* its return value in the field ret.                                      *)
(***************************************************************************)
World(ns, ss, m) == [nodes |-> ns, shapes |-> ss, model |-> m, ret |-> NULL]

\* model_t::model_t
model_t(ns, ss) ==
  LET id == Fresh(ns)
  IN World(model_node(ns, id, NULL, NULL), ss,
           [root |-> id, all_nodes |-> <<id>>, owned_shapes |-> <<>>])

\* model_t::~model_t
DeleteModel(W) ==
  World(DeleteNode(W.nodes, W.model.root),
        Free(W.shapes, Range(W.model.owned_shapes)), NoModel)

\* the common body of create_sphere, create_cylinder, create_box and
\* create_cone, sh being the shape object just constructed
create_node(W, sh, parent) ==
  LET p   == IF parent = NULL THEN W.model.root ELSE parent
      sid == Fresh(W.shapes)
      nid == Fresh(W.nodes)
  IN [nodes  |-> model_node(W.nodes, nid, sid, p),
      shapes |-> [x \in DOMAIN W.shapes \cup {sid} |->
                    IF x = sid THEN sh ELSE W.shapes[x]],
      model  |-> [W.model EXCEPT !.owned_shapes = Append(@, sid),
                                 !.all_nodes = Append(@, nid)],
      ret    |-> nid]

create_sphere(W, level, parent) == create_node(W, sphere_t(level), parent)

create_cylinder(W, level, parent) == create_node(W, cylinder_t(level), parent)

create_box(W, parent) == create_node(W, box_t(0), parent)

create_cone(W, level, parent) == create_node(W, cone_t(level), parent)

\* a variant without the test for the root
remove_node_root_too(W, node) ==
  IF node = NULL THEN W
  ELSE [W EXCEPT !.nodes = DeleteNode(W.nodes, node),
                 !.model.all_nodes =
                    SelectSeq(@, LAMBDA y : y \notin Range(collect(W.nodes, node)))]

\* a variant that takes only the node itself out of all_nodes
remove_node_self_only(W, node) ==
  IF node = NULL \/ node = W.model.root THEN W
  ELSE LET ns1 == IF W.nodes[node].parent # NULL
                  THEN remove_child(W.nodes, W.nodes[node].parent, node)
                  ELSE W.nodes
       IN [W EXCEPT !.nodes = DeleteNode(ns1, node),
                    !.model.all_nodes = Erase(@, node)]

remove_node(W, node) ==
  IF node = NULL \/ node = W.model.root THEN W
  ELSE LET ns1       == IF W.nodes[node].parent # NULL
                        THEN remove_child(W.nodes, W.nodes[node].parent, node)
                        ELSE W.nodes
           to_remove == collect(ns1, node)
       IN [W EXCEPT !.nodes = DeleteNode(ns1, node),
                    !.model.all_nodes =
                       SelectSeq(@, LAMBDA y : y \notin Range(to_remove))]

(***************************************************************************)
(* The model file.  A line is the sequence of its tokens; a number token   *)
(* is the decimal text <<d, k>>.  Numbers are written by operator<< and    *)
(* read by operator>>.                                                     *)
(***************************************************************************)
IntText(n) == StripZeros(n, 0)

IsIntText(t) == t[2] >= 0

ParseInt(t) == t[1] * 10^t[2]

\* the type and the parent index that save_to_file writes for the node at
\* place i of the collected nodes c
SavedType(W, n) ==
  IF W.nodes[n].shape # NULL THEN W.shapes[W.nodes[n].shape].shapetype ELSE -1

SavedParentIdx(W, c, n) ==
  IF W.nodes[n].parent # NULL THEN IndexOf(c, W.nodes[n].parent) - 1 ELSE -1

\* one line of save_to_file
SavedLine(W, c, n) ==
  LET t  == W.nodes[n].translation[4]
      sc == W.nodes[n].scale
      cl == W.nodes[n].color
  IN <<IntText(SavedType(W, n)), IntText(SavedParentIdx(W, c, n)),
       FormatFloat(t[1]), FormatFloat(t[2]), FormatFloat(t[3]),
       IntText(0), IntText(0), IntText(0), IntText(1),
       FormatFloat(sc[1][1]), FormatFloat(sc[2][2]), FormatFloat(sc[3][3]),
       FormatFloat(cl[1]), FormatFloat(cl[2]), FormatFloat(cl[3])>>

\* a variant that writes the nodes in the order of all_nodes
save_to_file_registry_order(W) ==
  [i \in 1..Len(W.model.all_nodes) |->
     SavedLine(W, W.model.all_nodes, W.model.all_nodes[i])]

\* the lines that save_to_file writes
save_to_file(W) ==
  LET c == collect(W.nodes, W.model.root)
  IN [i \in 1..Len(c) |-> SavedLine(W, c, c[i])]

\* a token is the text of a number, <<d, k>>, or a word, <<text>>
IsNumText(t) == Len(t) = 2

\* the extraction of the 15 fields of a line succeeds: there are 15 tokens,
\* each the text of a number, the first two without a fraction; what
\* follows the 15th token is not read
LineParses(line) ==
  /\ Len(line) >= 15
  /\ \A i \in 1..15 : IsNumText(line[i])
  /\ IsIntText(line[1])
  /\ IsIntText(line[2])

\* the shape that load_from_file constructs for a type of its switch
LoadedShape(type) ==
  CASE type = SPHERE_SHAPE   -> sphere_t(1)
    [] type = CYLINDER_SHAPE -> cylinder_t(1)
    [] type = BOX_SHAPE      -> box_t(0)
    [] type = CONE_SHAPE     -> cone_t(1)

\* the body of the loop of load_from_file for one line; vec is the local
\* vector `nodes` of load_from_file
LoadLine(W, vec, line) ==
  IF ~LineParses(line) THEN [W |-> W, vec |-> vec]
  ELSE LET type      == ParseInt(line[1])
           parentIdx == ParseInt(line[2])
           sid       == IF type \in ShapeTypes THEN Fresh(W.shapes) ELSE NULL
           ss1       == IF sid = NULL THEN W.shapes
                        ELSE [x \in DOMAIN W.shapes \cup {sid} |->
                                IF x = sid THEN LoadedShape(type) ELSE W.shapes[x]]
           parent    == IF parentIdx >= 0 /\ parentIdx < Len(vec)
                        THEN vec[parentIdx + 1] ELSE W.model.root
           nid       == Fresh(W.nodes)
           ns1       == model_node(W.nodes, nid, sid, parent)
           tv        == <<ParseFloat(line[3]), ParseFloat(line[4]), ParseFloat(line[5])>>
           sv        == <<ParseFloat(line[10]), ParseFloat(line[11]), ParseFloat(line[12])>>
           cv        == <<ParseFloat(line[13]), ParseFloat(line[14]), ParseFloat(line[15]), FOne>>
       IN [W   |-> [nodes  |-> [ns1 EXCEPT ![nid].translation = translate(Mat4Identity, tv),
                                           ![nid].scale = scale(Mat4Identity, sv),
                                           ![nid].color = cv],
                    shapes |-> ss1,
                    model  |-> [W.model EXCEPT
                                  !.owned_shapes = IF sid = NULL THEN @ ELSE Append(@, sid),
                                  !.all_nodes = Append(@, nid)],
                    ret    |-> NULL],
           vec |-> Append(vec, nid)]

RECURSIVE LoadLines(_, _, _)
\* the loop of load_from_file over the lines from line i on
LoadLines(st, lines, i) ==
  IF i > Len(lines) THEN st
  ELSE LET nx == LoadLine(st.W, st.vec, lines[i])
       IN IF Len(nx.vec) = 0 THEN nx ELSE LoadLines(nx, lines, i + 1)

\* a variant that keeps the old graph and the old shapes in the heaps
load_from_file_keeps_old(W, lines) ==
  LET W0 == model_t(W.nodes, W.shapes)
  IN [LoadLines([W |-> W0, vec |-> <<W0.model.root>>], lines, 1).W EXCEPT !.ret = 1]

\* load_from_file of a file that opens: the old graph and the old shapes
\* are deleted, a new root is made, and the lines are read
load_from_file(W, lines) ==
  LET W0 == model_t(DeleteNode(W.nodes, W.model.root),
                    Free(W.shapes, Range(W.model.owned_shapes)))
  IN [LoadLines([W |-> W0, vec |-> <<W0.model.root>>], lines, 1).W EXCEPT !.ret = 1]

(***************************************************************************)
(* The programming interface of model_t as a state machine: a caller       *)
(* creates nodes under any node of the graph, removes nodes, saves and     *)
(* loads.                                                                  *)
(***************************************************************************)
\* at most this many shapes are owned by the model at a time
MaxShapes == 1

\* at most this many nodes are alive at a time
MaxNodes == MaxShapes + 2

\* the default tessellation level of the create functions
DefaultLevel == 1

\* a line of a hand-written file
Line(type, parentIdx, t, sc, cl) ==
  <<IntText(type), IntText(parentIdx), t[1], t[2], t[3],
    IntText(0), IntText(0), IntText(0), IntText(1),
    sc[1], sc[2], sc[3], cl[1], cl[2], cl[3]>>

\* a hand-written file: a box under the root and a cone under the box
\*   2 0 1 0 0 0 0 0 1 2 1 1 1 0 0
\*   3 1 0 0.5 0 0 0 0 1 1 1 0.5 0 1 0.25
SampleFile ==
  << Line(BOX_SHAPE, 0, << <<1, 0>>, <<0, 0>>, <<0, 0>> >>,
          << <<2, 0>>, <<1, 0>>, <<1, 0>> >>, << <<1, 0>>, <<0, 0>>, <<0, 0>> >>),
     Line(CONE_SHAPE, 1, << <<0, 0>>, <<5, -1>>, <<0, 0>> >>,
          << <<1, 0>>, <<1, 0>>, <<5, -1>> >>, << <<0, 0>>, <<1, 0>>, <<25, -2>> >>) >>

\* the file of a name
FileOf(src) == CASE src = "saved"   -> file
                 [] src = "sample"  -> [exists |-> TRUE, lines |-> SampleFile]
                 [] src = "missing" -> NoFile

FileNames == {"saved", "sample", "missing"}

TheWorld == World(nodes, shapes, model)

Becomes(W) == nodes' = W.nodes /\ shapes' = W.shapes /\ model' = W.model

\* a record of an operation: its name, its node argument, the file it named
\* and, for remove_node, how many nodes it deleted (0 when it returned at
\* once)
Op(name, node, src, count) == [op |-> name, node |-> node, src |-> src, count |-> count]

\* what save_to_file saw of each node it wrote
Snapshot(W) ==
  LET c == collect(W.nodes, W.model.root)
  IN [i \in 1..Len(c) |->
        [type        |-> SavedType(W, c[i]),
         parentIdx   |-> SavedParentIdx(W, c, c[i]),
         translation |-> W.nodes[c[i]].translation,
         rotation    |-> W.nodes[c[i]].rotation,
         scale       |-> W.nodes[c[i]].scale,
         color       |-> W.nodes[c[i]].color]]

EditorVars == <<app_mode, trans_mode, axis_mode, current_node, deltas>>

Init ==
  LET W == model_t(<<>>, <<>>)
  IN /\ nodes = W.nodes
     /\ shapes = W.shapes
     /\ model = W.model
     /\ file = NoFile
     /\ app_mode = "MODE_NONE"
     /\ trans_mode = "TM_NONE"
     /\ axis_mode = 0
     /\ current_node = NULL
     /\ deltas = 0
     /\ last_op = Op("model_t", NULL, "", 0)
     /\ saved = <<>>
     /\ requested = <<>>
     /\ other = NoModel

CanCreate ==
  /\ model # NoModel
  /\ Len(model.owned_shapes) < MaxShapes
  /\ Cardinality(DOMAIN nodes) < MaxNodes

CreateSphere(parent) ==
  /\ CanCreate
  /\ Becomes(create_sphere(TheWorld, DefaultLevel, parent))
  /\ last_op' = Op("create_sphere", parent, "", 0)
  /\ UNCHANGED <<file, saved, requested, other, EditorVars>>

CreateCylinder(parent) ==
  /\ CanCreate
  /\ Becomes(create_cylinder(TheWorld, DefaultLevel, parent))
  /\ last_op' = Op("create_cylinder", parent, "", 0)
  /\ UNCHANGED <<file, saved, requested, other, EditorVars>>

CreateBox(parent) ==
  /\ CanCreate
  /\ Becomes(create_box(TheWorld, parent))
  /\ last_op' = Op("create_box", parent, "", 0)
  /\ UNCHANGED <<file, saved, requested, other, EditorVars>>

CreateCone(parent) ==
  /\ CanCreate
  /\ Becomes(create_cone(TheWorld, DefaultLevel, parent))
  /\ last_op' = Op("create_cone", parent, "", 0)
  /\ UNCHANGED <<file, saved, requested, other, EditorVars>>

RemoveNode(node) ==
  /\ model # NoModel
  /\ Becomes(remove_node(TheWorld, node))
  /\ last_op' = Op("remove_node", node, "",
                   IF node = NULL \/ node = model.root THEN 0
                   ELSE Len(collect(nodes, node)))
  /\ UNCHANGED <<file, saved, requested, other, EditorVars>>

SaveToFile ==
  /\ model # NoModel
  /\ file' = [exists |-> TRUE, lines |-> save_to_file(TheWorld)]
  /\ saved' = Snapshot(TheWorld)
  /\ last_op' = Op("save_to_file", NULL, "saved", 0)
  /\ UNCHANGED <<nodes, shapes, model, requested, other, EditorVars>>

\* a variant that discards the old graph before it tests the stream
LoadFromFile_cleanup_first(src) ==
  /\ model # NoModel
  /\ IF ~FileOf(src).exists
     THEN /\ Becomes(model_t(DeleteNode(nodes, model.root),
                             Free(shapes, Range(model.owned_shapes))))
          /\ last_op' = Op("load_failed", NULL, src, 0)
     ELSE /\ Len(FileOf(src).lines) < MaxNodes
          /\ Becomes(load_from_file(TheWorld, FileOf(src).lines))
          /\ last_op' = Op("load_from_file", NULL, src, 0)
  /\ UNCHANGED <<file, saved, requested, other, EditorVars>>

\* load_from_file: false when the file does not open (recorded as
\* load_failed), true otherwise
LoadFromFile(src) ==
  /\ model # NoModel
  /\ IF ~FileOf(src).exists
     THEN /\ UNCHANGED <<nodes, shapes, model>>
          /\ last_op' = Op("load_failed", NULL, src, 0)
     ELSE /\ Len(FileOf(src).lines) < MaxNodes
          /\ Becomes(load_from_file(TheWorld, FileOf(src).lines))
          /\ last_op' = Op("load_from_file", NULL, src, 0)
  /\ UNCHANGED <<file, saved, requested, other, EditorVars>>

\* the nodes a caller can name: those of the graph, and NULL
Callable == IF model = NoModel THEN {NULL} ELSE Range(model.all_nodes) \cup {NULL}

Next ==
  \/ \E parent \in Callable : CreateSphere(parent)
  \/ \E parent \in Callable : CreateCylinder(parent)
  \/ \E parent \in Callable : CreateBox(parent)
  \/ \E parent \in Callable : CreateCone(parent)
  \/ \E node \in Callable : RemoveNode(node)
  \/ SaveToFile
  \/ \E src \in FileNames : LoadFromFile(src)

Spec == Init /\ [][Next]_vars

(***************************************************************************)
(* main.cpp: the editor.  handle_key is one action per group of keys; an   *)
(* action is the whole handler for its keys, in whatever mode the editor   *)
(* is.  A session is explored in this order: the user first builds the     *)
(* scene and selects mode and axis, then presses + and -, then saves.      *)
(***************************************************************************)
\* at most this many + and - keys change a matrix in a session
MaxDeltas == 2

\* the centroids that compute_shape_centroid finds for the meshes of level
\* 1 (the level of every shape of the editor): the mean of the vertex list,
\* summed in float in the order of the list
Centroid ==
  [t \in ShapeTypes |->
     CASE t = SPHERE_SHAPE   -> << <<-8699297, -52>>, <<-2330169, -49>>, <<-6640623, -49>> >>
       [] t = CYLINDER_SHAPE -> << <<-11184811, -56>>, FZero, <<-3, -29>> >>
       [] t = BOX_SHAPE      -> Vec3Zero
       [] t = CONE_SHAPE     -> << <<-11184811, -55>>, <<-11184811, -25>>, <<-11184811, -53>> >>]

compute_shape_centroid(W, node) ==
  IF node = NULL THEN Vec3Zero
  ELSE IF W.nodes[node].shape = NULL THEN Vec3Zero
  ELSE Centroid[W.shapes[W.nodes[node].shape].shapetype]

\* the world position of the centroid of the shape of node n
WorldCentroid(W, n) ==
  LET cen == compute_shape_centroid(W, n)
  IN MatVec(get_world_matrix(W.nodes, n), <<cen[1], cen[2], cen[3], FOne>>)

compute_model_centroid(W) ==
  IF W.model = NoModel THEN Vec3Zero
  ELSE LET c      == collect(W.nodes, W.model.root)
           shaped == SelectSeq(c, LAMBDA n : W.nodes[n].shape # NULL)
           Sum[i \in 0..Len(shaped)] ==
             IF i = 0 THEN Vec3Zero
             ELSE LET tc == WorldCentroid(W, shaped[i])
                  IN <<FAdd(Sum[i - 1][1], tc[1]), FAdd(Sum[i - 1][2], tc[2]),
                       FAdd(Sum[i - 1][3], tc[3])>>
           total  == Sum[Len(shaped)]
       IN IF Len(shaped) > 0
          THEN <<FDivInt(total[1], Len(shaped)), FDivInt(total[2], Len(shaped)),
                 FDivInt(total[3], Len(shaped))>>
          ELSE total

\* the floats 0.1f, 1.1f and 0.9f
Tenth == <<13421773, -27>>

ScaleUp == <<9227469, -23>>

ScaleDown == <<7549747, -23>>

\* T2 * D * T1 * m for the pivot cen
AboutPivot(D, cen, m) ==
  MatMul(MatMul(MatMul(translate(Mat4Identity, cen), D),
                translate(Mat4Identity, VecNeg(cen))),
         m)

\* a variant that turns by +10 degrees for both keys
RotationDelta_one_way(rot, cen, sign, axis) ==
  IF axis \in 1..3
  THEN AboutPivot(rotate(Mat4Identity, radians(TenDegrees), AxisVec(axis)), cen, rot)
  ELSE rot

\* the rotation that + (sign 1) or - (sign -1) gives in TM_ROT: the delta
\* about the pivot cen, times the old rotation
RotationDelta(rot, cen, sign, axis) ==
  IF axis \in 1..3
  THEN AboutPivot(rotate(Mat4Identity,
                         radians(IF sign = 1 THEN TenDegrees ELSE FNeg(TenDegrees)),
                         AxisVec(axis)),
                  cen, rot)
  ELSE rot

\* the translation that + or - gives in TM_TRANS
TranslationDelta(tr, sign, axis) ==
  LET d == IF sign = 1 THEN Tenth ELSE FNeg(Tenth)
  IN IF axis \in 1..3
     THEN translate(tr, <<FMul(d, AxisVec(axis)[1]), FMul(d, AxisVec(axis)[2]),
                          FMul(d, AxisVec(axis)[3])>>)
     ELSE tr

\* a variant without the translations to and from the pivot
ScaleDelta_no_pivot(sc, cen, sign, axis) ==
  MatMul(scale(Mat4Identity,
               [i \in 1..3 |-> IF axis # i THEN FOne
                               ELSE IF sign = 1 THEN ScaleUp ELSE ScaleDown]),
         sc)

\* the vector sv of TM_SCALE: f on the axis, 1 elsewhere
ScaleVec(f, axis) == [i \in 1..3 |-> IF axis = i THEN f ELSE FOne]

\* the scale that + or - gives in TM_SCALE
ScaleDelta(sc, cen, sign, axis) ==
  AboutPivot(scale(Mat4Identity,
                   ScaleVec(IF sign = 1 THEN ScaleUp ELSE ScaleDown, axis)),
             cen, sc)

\* ensure_model
ensure_model(W) == IF W.model = NoModel THEN model_t(W.nodes, W.shapes) ELSE W

\* what the user types at the colour prompt: three numbers
ColorInputs == { << <<1234567, -7>>, <<5, -1>>, <<1, 0>> >> }

InitEditor ==
  /\ nodes = <<>>
  /\ shapes = <<>>
  /\ model = NoModel
  /\ file = NoFile
  /\ app_mode = "MODE_NONE"
  /\ trans_mode = "TM_NONE"
  /\ axis_mode = 0
  /\ current_node = NULL
  /\ deltas = 0
  /\ last_op = Op("main", NULL, "", 0)
  /\ saved = <<>>
  /\ requested = <<>>
  /\ other = NoModel

\* the session is still in its building phase
Building == deltas = 0 /\ ~file.exists

\* M and I
KeyMode(key) ==
  /\ app_mode' = IF key = "M" THEN "MODE_MODELLING" ELSE "MODE_INSPECTION"
  /\ UNCHANGED <<nodes, shapes, model, file, trans_mode, axis_mode, current_node,
                 deltas, last_op, saved, requested, other>>

\* 1, 2, 3, 4: a new shape under the root becomes the current node
KeyAdd(key) ==
  /\ Building
  /\ model = NoModel \/ CanCreate
  /\ IF app_mode = "MODE_MODELLING"
     THEN LET W0 == ensure_model(TheWorld)
              W  == CASE key = 1 -> create_sphere(W0, 1, W0.model.root)
                      [] key = 2 -> create_cylinder(W0, 1, W0.model.root)
                      [] key = 3 -> create_box(W0, W0.model.root)
                      [] key = 4 -> create_cone(W0, 1, W0.model.root)
          IN /\ Becomes(W)
             /\ current_node' = W.ret
             /\ last_op' = Op("add", W.ret, "", 0)
     ELSE UNCHANGED <<nodes, shapes, model, current_node, last_op>>
  /\ UNCHANGED <<file, app_mode, trans_mode, axis_mode, deltas, saved, requested, other>>

\* a variant of 5 that leaves current_node as it is
KeyRemove_stale ==
  /\ Building
  /\ IF /\ app_mode = "MODE_MODELLING"
        /\ current_node # NULL
        /\ model # NoModel
        /\ current_node # model.root
     THEN LET alist == model.all_nodes
              found == {i \in 1..Len(alist) : alist[i] = current_node}
              idx   == IF found = {} THEN -1
                       ELSE (CHOOSE i \in found : \A j \in found : j <= i) - 1
              newcur == IF idx > 1 THEN alist[idx] ELSE NULL
          IN /\ Becomes(remove_node(TheWorld, current_node))
             /\ current_node' = current_node
             /\ last_op' = Op("remove_node", current_node, "",
                              Len(collect(nodes, current_node)))
     ELSE UNCHANGED <<nodes, shapes, model, current_node, last_op>>
  /\ UNCHANGED <<file, app_mode, trans_mode, axis_mode, deltas, saved, requested, other>>

\* 5: the current node is removed, and the node before it in all_nodes
\* becomes the current one
KeyRemove ==
  /\ Building
  /\ IF /\ app_mode = "MODE_MODELLING"
        /\ current_node # NULL
        /\ model # NoModel
        /\ current_node # model.root
     THEN LET alist == model.all_nodes
              found == {i \in 1..Len(alist) : alist[i] = current_node}
              idx   == IF found = {} THEN -1
                       ELSE (CHOOSE i \in found : \A j \in found : j <= i) - 1
              newcur == IF idx > 1 THEN alist[idx] ELSE NULL
          IN /\ Becomes(remove_node(TheWorld, current_node))
             /\ current_node' = newcur
             /\ last_op' = Op("remove_node", current_node, "",
                              Len(collect(nodes, current_node)))
     ELSE UNCHANGED <<nodes, shapes, model, current_node, last_op>>
  /\ UNCHANGED <<file, app_mode, trans_mode, axis_mode, deltas, saved, requested, other>>

\* R, T, G: T and G act in modelling mode only
KeyTransformMode(key) ==
  /\ Building
  /\ trans_mode' =
       IF app_mode = "MODE_MODELLING"
       THEN (CASE key = "R" -> "TM_ROT" [] key = "T" -> "TM_TRANS" [] key = "G" -> "TM_SCALE")
       ELSE IF app_mode = "MODE_INSPECTION" /\ key = "R" THEN "TM_ROT"
       ELSE trans_mode
  /\ UNCHANGED <<nodes, shapes, model, file, app_mode, axis_mode, current_node,
                 deltas, last_op, saved, requested, other>>

\* X, Y, Z
KeyAxis(axis) ==
  /\ Building
  /\ axis_mode' = IF app_mode = "MODE_NONE" THEN axis_mode ELSE axis
  /\ UNCHANGED <<nodes, shapes, model, file, app_mode, trans_mode, current_node,
                 deltas, last_op, saved, requested, other>>

\* + (sign 1) and - (sign -1): in modelling mode a delta of the current
\* node, in inspection mode a rotation of the root about the centroid of
\* the model
KeyDelta(sign) ==
  /\ deltas < MaxDeltas
  /\ ~file.exists
  /\ IF app_mode = "MODE_MODELLING" /\ current_node # NULL /\ trans_mode # "TM_NONE"
     THEN LET cen == compute_shape_centroid(TheWorld, current_node)
              n   == nodes[current_node]
          IN /\ nodes' =
                  CASE trans_mode = "TM_ROT" ->
                         [nodes EXCEPT ![current_node].rotation =
                            RotationDelta(n.rotation, cen, sign, axis_mode)]
                    [] trans_mode = "TM_TRANS" ->
                         [nodes EXCEPT ![current_node].translation =
                            TranslationDelta(n.translation, sign, axis_mode)]
                    [] trans_mode = "TM_SCALE" ->
                         [nodes EXCEPT ![current_node].scale =
                            ScaleDelta(n.scale, cen, sign, axis_mode)]
             /\ deltas' = deltas + 1
             /\ last_op' = Op(IF sign = 1 THEN "plus" ELSE "minus", current_node, "", 0)
     ELSE IF /\ app_mode = "MODE_INSPECTION" /\ trans_mode = "TM_ROT"
             /\ model # NoModel
          THEN /\ nodes' = [nodes EXCEPT ![model.root].rotation =
                              RotationDelta(nodes[model.root].rotation,
                                            compute_model_centroid(TheWorld),
                                            sign, axis_mode)]
               /\ deltas' = deltas + 1
               /\ last_op' = Op(IF sign = 1 THEN "plus" ELSE "minus", model.root, "", 0)
          ELSE UNCHANGED <<nodes, deltas, last_op>>
  /\ UNCHANGED <<shapes, model, file, app_mode, trans_mode, axis_mode, current_node,
                 saved, requested, other>>

\* C: the colour of the current node is read from the terminal
KeyColor(input) ==
  /\ ~file.exists
  /\ IF app_mode = "MODE_MODELLING" /\ current_node # NULL
     THEN /\ nodes' = [nodes EXCEPT ![current_node].color =
                         <<ParseFloat(input[1]), ParseFloat(input[2]),
                           ParseFloat(input[3]), FOne>>]
          /\ last_op' = Op("color", current_node, "", 0)
     ELSE UNCHANGED <<nodes, last_op>>
  /\ UNCHANGED <<shapes, model, file, app_mode, trans_mode, axis_mode, current_node,
                 deltas, saved, requested, other>>

\* S: the model is saved
KeySave ==
  /\ IF app_mode = "MODE_MODELLING" /\ model # NoModel
     THEN /\ file' = [exists |-> TRUE, lines |-> save_to_file(TheWorld)]
          /\ saved' = Snapshot(TheWorld)
          /\ last_op' = Op("save_to_file", NULL, "saved", 0)
     ELSE UNCHANGED <<file, saved, last_op>>
  /\ UNCHANGED <<nodes, shapes, model, app_mode, trans_mode, axis_mode, current_node,
                 deltas, requested, other>>

\* L: the current model is deleted and a new one is loaded from the file;
\* when the file does not open there is no model afterwards
KeyLoad(src) ==
  /\ FileOf(src).exists => Len(FileOf(src).lines) < MaxNodes
  /\ IF app_mode = "MODE_INSPECTION"
     THEN LET W0 == IF model # NoModel THEN DeleteModel(TheWorld) ELSE TheWorld
              c0 == IF model # NoModel THEN NULL ELSE current_node
              W1 == model_t(W0.nodes, W0.shapes)
          IN IF ~FileOf(src).exists
             THEN /\ Becomes(DeleteModel(W1))
                  /\ current_node' = c0
                  /\ last_op' = Op("load_failed", NULL, src, 0)
             ELSE LET W2 == load_from_file(W1, FileOf(src).lines)
                  IN /\ Becomes(W2)
                     /\ current_node' = IF Len(W2.model.all_nodes) > 0
                                        THEN W2.model.all_nodes[Len(W2.model.all_nodes)]
                                        ELSE c0
                     /\ last_op' = Op("load_from_file", NULL, src, 0)
     ELSE UNCHANGED <<nodes, shapes, model, current_node, last_op>>
  /\ UNCHANGED <<file, app_mode, trans_mode, axis_mode, deltas, saved, requested, other>>

\* the keys of a session that builds and transforms
NextEditor ==
  \/ \E key \in {"M", "I"} : KeyMode(key)
  \/ \E key \in 1..4 : KeyAdd(key)
  \/ KeyRemove
  \/ \E key \in {"R", "T", "G"} : KeyTransformMode(key)
  \/ \E axis \in 1..3 : KeyAxis(axis)
  \/ \E sign \in {1, -1} : KeyDelta(sign)
  \/ \E src \in FileNames : KeyLoad(src)

SpecEditor == InitEditor /\ [][NextEditor]_vars

\* the keys of a session that also colours and saves
NextSession ==
  \/ NextEditor
  \/ \E input \in ColorInputs : KeyColor(input)
  \/ KeySave

SpecSession == InitEditor /\ [][NextSession]_vars

(***************************************************************************)
(* shape.cpp as a state machine: shapes are constructed on their own, of   *)
(* any kind and with any requested level, and deleted.                     *)
(***************************************************************************)
\* at most this many shapes are alive at a time
MaxMeshes == 2

\* the constructors are called with the levels 0..MaxReqLevel
MaxReqLevel == 6

InitMesh ==
  /\ nodes = <<>>
  /\ shapes = <<>>
  /\ model = NoModel
  /\ file = NoFile
  /\ app_mode = "MODE_NONE"
  /\ trans_mode = "TM_NONE"
  /\ axis_mode = 0
  /\ current_node = NULL
  /\ deltas = 0
  /\ last_op = Op("main", NULL, "", 0)
  /\ saved = <<>>
  /\ requested = <<>>
  /\ other = NoModel

\* the heap h with the object x at a new address
New(h, x) == [a \in DOMAIN h \cup {Fresh(h)} |-> IF a = Fresh(h) THEN x ELSE h[a]]

MeshFrame == <<nodes, model, file, app_mode, trans_mode, axis_mode, current_node,
               deltas, last_op, saved, other>>

NewSphere(tessLevel) ==
  /\ Cardinality(DOMAIN shapes) < MaxMeshes
  /\ shapes' = New(shapes, sphere_t(tessLevel))
  /\ requested' = New(requested, tessLevel)
  /\ UNCHANGED MeshFrame

NewCylinder(tessLevel) ==
  /\ Cardinality(DOMAIN shapes) < MaxMeshes
  /\ shapes' = New(shapes, cylinder_t(tessLevel))
  /\ requested' = New(requested, tessLevel)
  /\ UNCHANGED MeshFrame

NewBox(tessLevel) ==
  /\ Cardinality(DOMAIN shapes) < MaxMeshes
  /\ shapes' = New(shapes, box_t(tessLevel))
  /\ requested' = New(requested, tessLevel)
  /\ UNCHANGED MeshFrame

NewCone(tessLevel) ==
  /\ Cardinality(DOMAIN shapes) < MaxMeshes
  /\ shapes' = New(shapes, cone_t(tessLevel))
  /\ requested' = New(requested, tessLevel)
  /\ UNCHANGED MeshFrame

DeleteShape(s) ==
  /\ shapes' = Free(shapes, {s})
  /\ requested' = Free(requested, {s})
  /\ UNCHANGED MeshFrame

NextMesh ==
  \/ \E tessLevel \in 0..MaxReqLevel : NewSphere(tessLevel)
  \/ \E tessLevel \in 0..MaxReqLevel : NewCylinder(tessLevel)
  \/ \E tessLevel \in 0..MaxReqLevel : NewBox(tessLevel)
  \/ \E tessLevel \in 0..MaxReqLevel : NewCone(tessLevel)
  \/ \E s \in DOMAIN shapes : DeleteShape(s)

SpecMesh == InitMesh /\ [][NextMesh]_vars

(***************************************************************************)
(* model_t with files written by hand: a caller creates nodes, loads a     *)
(* file of any lines of a pool, and saves.                                 *)
(***************************************************************************)
\* a hand-written file has at most this many lines
MaxLines == 3

UnitX == << <<1, 0>>, <<0, 0>>, <<0, 0>> >>

Ones == << <<1, 0>>, <<1, 0>>, <<1, 0>> >>

\* well-formed lines: a box under entry 0, a cone under entry 1, a sphere
\* under entry 2, and a line of unknown type with a negative parent index
\*   2 0 1 0 0 0 0 0 1 1 1 1 1 1 1
\*   3 1 1 0 0 0 0 0 1 1 1 1 1 0 0
\*   0 2 1 0 0 0 0 0 1 1 1 1 1 1 1
\*   7 -2 1 0 0 0 0 0 1 1 1 1 1 1 1
GoodLines ==
  { Line(BOX_SHAPE, 0, UnitX, Ones, Ones),
    Line(CONE_SHAPE, 1, UnitX, Ones, UnitX),
    Line(SPHERE_SHAPE, 2, UnitX, Ones, Ones),
    Line(7, -2, UnitX, Ones, Ones) }

\* lines with fewer than 15 fields (the first 14 of a line, and the empty
\* line) and a line with a word in the place of a number
\*   2 0 1 0 0 0 0 0 1 1 1 1 1 1
\*   2 0 1 0 0 x 0 0 1 1 1 1 1 1 1
BadLines ==
  { SubSeq(Line(BOX_SHAPE, 0, UnitX, Ones, Ones), 1, 14),
    [Line(BOX_SHAPE, 0, UnitX, Ones, Ones) EXCEPT ![6] = <<"x">>] }

\* a line with 16 fields
\*   2 0 1 0 0 0 0 0 1 1 1 1 1 1 1 9
LongLine == Append(Line(BOX_SHAPE, 0, UnitX, Ones, Ones), <<9, 0>>)

LinePool == GoodLines \cup BadLines \cup {LongLine}

\* the files of at most MaxLines lines of the pool
Texts == UNION {[1..n -> LinePool] : n \in 0..MaxLines}

\* load_from_file of a file that somebody wrote with the lines text; a
\* behaviour loads one such file, into the graph that was built before
LoadWritten(text) ==
  /\ model # NoModel
  /\ ~file.exists
  /\ Becomes(load_from_file(TheWorld, text))
  /\ file' = [exists |-> TRUE, lines |-> text]
  /\ last_op' = Op("load_from_file", NULL, "written", 0)
  /\ UNCHANGED <<saved, requested, other, EditorVars>>

NextLoad ==
  \/ \E parent \in Callable : CreateBox(parent)
  \/ \E text \in Texts : LoadWritten(text)
  \/ SaveToFile

SpecLoad == Init /\ [][NextLoad]_vars

(***************************************************************************)
(* A caller with two model_t objects: it creates nodes in the one it has   *)
(* turned to, and calls remove_node of that one with any node it holds,    *)
(* of either graph.                                                        *)
(***************************************************************************)
InitTwo ==
  LET W1 == model_t(<<>>, <<>>)
      W2 == model_t(W1.nodes, W1.shapes)
  IN /\ nodes = W2.nodes
     /\ shapes = W2.shapes
     /\ model = W1.model
     /\ other = W2.model
     /\ file = NoFile
     /\ app_mode = "MODE_NONE"
     /\ trans_mode = "TM_NONE"
     /\ axis_mode = 0
     /\ current_node = NULL
     /\ deltas = 0
     /\ last_op = Op("model_t", NULL, "", 0)
     /\ saved = <<>>
     /\ requested = <<>>

\* the caller turns to its other model_t object
Turn ==
  /\ model' = other
  /\ other' = model
  /\ last_op' = Op("turn", NULL, "", 0)
  /\ UNCHANGED <<nodes, shapes, file, saved, requested, EditorVars>>

\* no pointer of either graph dangles; once one does, what the program does
\* next is undefined, and the behaviour is followed no further
Sound ==
  /\ Range(model.all_nodes) \cup {model.root} \subseteq DOMAIN nodes
  /\ Range(other.all_nodes) \cup {other.root} \subseteq DOMAIN nodes

NextTwo ==
  \/ \E parent \in Callable : Sound /\ CreateSphere(parent)
  \/ \E parent \in Callable : Sound /\ CreateBox(parent)
  \/ \E node \in DOMAIN nodes \cup {NULL} : Sound /\ RemoveNode(node)
  \/ Sound /\ Turn

SpecTwo == InitTwo /\ [][NextTwo]_vars

(***************************************************************************)
(* Properties of the interface of model_t                                  *)
(***************************************************************************)
\* the graph is the result of loading the file that save_to_file wrote
LoadedSaved == last_op.op = "load_from_file" /\ last_op.src = "saved"

\* the saved graph is one that create and remove build: every node but the
\* root has a shape, and no node has been transformed or coloured
BuiltByCreate(snap) ==
  \A i \in 1..Len(snap) :
     /\ (i > 1 => snap[i].type # -1)
     /\ snap[i].translation = Mat4Identity
     /\ snap[i].rotation = Mat4Identity
     /\ snap[i].scale = Mat4Identity
     /\ snap[i].color = White

\* the parent indices of the graph in pre-order, as save_to_file computes them
ParentIndexSeq ==
  LET c == collect(nodes, model.root)
  IN [i \in 1..Len(c) |-> SavedParentIdx(TheWorld, c, c[i])]

\* C1: a graph of N nodes built by create and remove, saved and loaded
\* again, is a graph of N nodes with the same pre-order sequence of parent
\* indices
C1_SaveLoadKeepsStructure ==
  (LoadedSaved /\ BuiltByCreate(saved)) =>
     /\ Len(collect(nodes, model.root)) = Len(saved)
     /\ ParentIndexSeq = [i \in 1..Len(saved) |-> saved[i].parentIdx]

\* C2: all_nodes holds every node reachable from the root exactly once, and
\* no other node
C2_AllNodesIsTheTree ==
  model # NoModel =>
     /\ Range(model.all_nodes) = Range(collect(nodes, model.root))
     /\ \A i, j \in 1..Len(model.all_nodes) :
           model.all_nodes[i] = model.all_nodes[j] => i = j

\* a node with a descendant has been removed from a graph that was loaded
C2_Witness ==
  /\ last_op.op = "remove_node"
  /\ last_op.count >= 2
  /\ Len(model.all_nodes) >= 1

\* the step is a call of remove_node on the node `node`, which is in the
\* graph and is not its root
RemoveStep(node) ==
  /\ node \in Range(model.all_nodes)
  /\ node # model.root
  /\ last_op' # last_op
  /\ last_op' = Op("remove_node", node, "", last_op'.count)

\* C3: remove_node of a node with K descendants, not the root, takes K + 1
\* nodes from all_nodes and one child from the node's parent, and leaves the
\* parent and the order of the children of every other node as they were
C3_RemoveTakesSubtree ==
  [][\A node \in DOMAIN nodes :
       RemoveStep(node) =>
         LET gone == Range(collect(nodes, node))
             K    == Cardinality(gone) - 1
             p    == nodes[node].parent
         IN /\ Len(model'.all_nodes) = Len(model.all_nodes) - (K + 1)
            /\ Len(nodes'[p].children) = Len(nodes[p].children) - 1
            /\ \A n \in DOMAIN nodes \ gone :
                  /\ n \in DOMAIN nodes'
                  /\ nodes'[n].parent = nodes[n].parent
                  /\ nodes'[n].children = Erase(nodes[n].children, node)]_vars

\* a node with at least one descendant has just been removed
C3_Witness ==
  /\ last_op.op = "remove_node"
  /\ last_op.count >= 2
  /\ last_op.node \notin DOMAIN nodes

\* C5: one root, without parent and without shape; every other node is
\* once in the children of its parent, and every child's parent is the node
\* that lists it
C5_ParentsAndChildrenAgree ==
  model # NoModel =>
     /\ {n \in DOMAIN nodes : nodes[n].parent = NULL} = {model.root}
     /\ nodes[model.root].shape = NULL
     /\ \A n \in DOMAIN nodes \ {model.root} :
           /\ nodes[n].parent \in DOMAIN nodes
           /\ Cardinality({i \in 1..Len(nodes[nodes[n].parent].children) :
                             nodes[nodes[n].parent].children[i] = n}) = 1
     /\ \A n \in DOMAIN nodes :
           \A i \in 1..Len(nodes[n].children) :
              /\ nodes[n].children[i] \in DOMAIN nodes
              /\ nodes[nodes[n].children[i]].parent = n

\* a graph of three nodes or more has been loaded
C5_Witness ==
  /\ last_op.op = "load_from_file"
  /\ Cardinality(DOMAIN nodes) >= 3
  /\ \E n \in DOMAIN nodes : Len(nodes[n].children) >= 1 /\ n # model.root

(***************************************************************************)
(* Properties of the meshes                                                *)
(***************************************************************************)
\* C9: the vertex count of a sphere, a cylinder and a cone grows strictly
\* with the requested level from 0 to 4 and is the count of level 4 for
\* every level above 4; the vertex count of a box is 36 at every level
C9_VertexCountByLevel ==
  /\ \A s \in DOMAIN shapes :
        shapes[s].shapetype = BOX_SHAPE => shapes[s].nverts = 36
  /\ \A s1, s2 \in DOMAIN shapes :
        (shapes[s1].shapetype = shapes[s2].shapetype
           /\ shapes[s1].shapetype # BOX_SHAPE) =>
          /\ (requested[s1] < requested[s2] /\ requested[s2] <= 4) =>
                shapes[s1].nverts < shapes[s2].nverts
          /\ (requested[s1] >= 4 /\ requested[s2] >= 4) =>
                shapes[s1].nverts = shapes[s2].nverts

\* two spheres, one made with level 4 and one with a level above 4
C9_Witness ==
  \E s1, s2 \in DOMAIN shapes :
     /\ shapes[s1].shapetype = SPHERE_SHAPE /\ requested[s1] = 4
     /\ shapes[s2].shapetype = SPHERE_SHAPE /\ requested[s2] > 4

\* C10: the vertex list of every shape is a positive multiple of 3 long,
\* and no step changes the vertex list of a shape that stays alive
C10_TrianglesForLife ==
  /\ [](\A s \in DOMAIN shapes :
          shapes[s].nverts > 0 /\ shapes[s].nverts % 3 = 0)
  /\ [][\A s \in DOMAIN shapes \cap DOMAIN shapes' :
          shapes'[s].nverts = shapes[s].nverts]_vars

\* a cone of level 0, the smallest mesh but the box, next to a shape that
\* was made with a level above 4
C10_Witness ==
  \E s1, s2 \in DOMAIN shapes :
     /\ shapes[s1].shapetype = CONE_SHAPE /\ requested[s1] = 0
     /\ requested[s2] > 4 /\ shapes[s2].level = 4

(***************************************************************************)
(* Properties of the matrices                                              *)
(***************************************************************************)
RECURSIVE AncestorChain(_, _)
\* the nodes from the root down to n
AncestorChain(ns, n) ==
  IF ns[n].parent = NULL THEN <<n>>
  ELSE Append(AncestorChain(ns, ns[n].parent), n)

\* the product of the matrices ms, taken from left to right
LeftProduct(ms) ==
  LET P[i \in 1..Len(ms)] == IF i = 1 THEN ms[1] ELSE MatMul(P[i - 1], ms[i])
  IN P[Len(ms)]

\* C4: the world matrix of every node is the product, from left to right,
\* of translation * rotation * scale of the nodes from the root down to it
C4_WorldIsProductOfLocals ==
  model # NoModel =>
     \A n \in Range(model.all_nodes) :
        LET chain == AncestorChain(nodes, n)
        IN get_world_matrix(nodes, n) =
             LeftProduct([i \in 1..Len(chain) |->
                            MatMul(MatMul(nodes[chain[i]].translation,
                                          nodes[chain[i]].rotation),
                                   nodes[chain[i]].scale)])

\* a node two levels below the root has been turned, under a parent that
\* is moved and scaled
C4_Witness ==
  /\ model # NoModel
  /\ \E n \in Range(model.all_nodes) :
        /\ Len(AncestorChain(nodes, n)) = 3
        /\ nodes[n].rotation # Mat4Identity
        /\ nodes[nodes[n].parent].translation # Mat4Identity
        /\ nodes[nodes[n].parent].scale # Mat4Identity

\* the step is the key + in TM_ROT on a current node that has a shape
PlusRotStep ==
  /\ app_mode = "MODE_MODELLING"
  /\ trans_mode = "TM_ROT"
  /\ current_node # NULL
  /\ nodes[current_node].shape # NULL
  /\ deltas' = deltas + 1
  /\ last_op' = Op("plus", current_node, "", 0)

\* the rotation that the key - gives after the step
MinusAfterPlus ==
  RotationDelta(nodes'[current_node].rotation,
                compute_shape_centroid(TheWorld, current_node), -1, axis_mode)

\* every entry of matrix a is within tol of the entry of matrix b
MatNear(a, b, tol) ==
  /\ Len(a) = 4
  /\ Len(b) = 4
  /\ \A c, r \in 1..4 : FLeq(FAbs(FSub(a[c][r], b[c][r])), tol)

\* 2^-20, about 1e-6
Tolerance == <<1, -20>>

\* C8 as stated: + and then - about the same axis give back the rotation
\* matrix that the node had
C8_PlusMinusRestoresExactly ==
  [][PlusRotStep => MinusAfterPlus = nodes[current_node].rotation]_vars

\* C8, amended: + and then - about the same axis give back the rotation
\* matrix that the node had to within a tolerance of 2^-20 in every entry
C8_PlusMinusRestoresNearly ==
  [][PlusRotStep =>
       MatNear(MinusAfterPlus, nodes[current_node].rotation, Tolerance)]_vars

\* the key + has just turned the current node, which has a shape, about
\* an axis
C8_Witness ==
  /\ last_op.op = "plus"
  /\ app_mode = "MODE_MODELLING"
  /\ trans_mode = "TM_ROT"
  /\ axis_mode \in 1..3
  /\ current_node # NULL
  /\ nodes[current_node].shape # NULL
  /\ nodes[current_node].rotation # Mat4Identity

(***************************************************************************)
(* Properties of the file                                                  *)
(***************************************************************************)
\* the node that load_from_file made of line i of the file
LoadedOfLine(i) == nodes[model.all_nodes[i + 1]]

\* C6: after a save and a load, the node made of the line of a node with a
\* shape has the scale matrix that the node had when it was saved
C6_ScaleSurvivesSaveLoad ==
  LoadedSaved =>
     \A i \in 1..Len(saved) :
        saved[i].type # -1 => LoadedOfLine(i).scale = saved[i].scale

\* C7: after a save and a load, the node made of a line has the translation
\* offset and the r, g, b of the node that was saved, the identity as its
\* rotation and 1 as its alpha
C7_LineSurvivesSaveLoad ==
  LoadedSaved =>
     \A i \in 1..Len(saved) :
        /\ \A k \in 1..3 :
              /\ LoadedOfLine(i).translation[4][k] = saved[i].translation[4][k]
              /\ LoadedOfLine(i).color[k] = saved[i].color[k]
        /\ LoadedOfLine(i).rotation = Mat4Identity
        /\ LoadedOfLine(i).color[4] = FOne

(***************************************************************************)
(* Properties of the calls that are refused                                *)
(***************************************************************************)
\* the step is a call of remove_node that returned at its first line
RemoveRefused(node) ==
  /\ last_op' # last_op
  /\ last_op' = Op("remove_node", node, "", 0)

\* C11: remove_node of the null pointer or of the root leaves the root, the
\* links of every node, all_nodes and owned_shapes as they were
C11_RemoveNullOrRootIsNoOp ==
  [][\A node \in {NULL, model.root} :
       RemoveRefused(node) =>
         /\ model' = model
         /\ nodes' = nodes
         /\ shapes' = shapes]_vars

\* remove_node has just been called on the root of a graph with a shape
C11_Witness ==
  /\ last_op = Op("remove_node", model.root, "", 0)
  /\ Len(model.all_nodes) >= 2
  /\ Len(model.owned_shapes) >= 1

\* the step is a call of load_from_file on the file src that returned false
LoadRefused(src) ==
  /\ last_op' # last_op
  /\ last_op' = Op("load_failed", NULL, src, 0)

\* C12: load_from_file of a file that does not open returns false and
\* leaves the root, every node, all_nodes and owned_shapes as they were; it
\* returns true only for a file that opens
C12_FailedLoadKeepsGraph ==
  [][/\ \A src \in FileNames :
          LoadRefused(src) =>
            /\ ~FileOf(src).exists
            /\ model' = model
            /\ nodes' = nodes
            /\ shapes' = shapes
     /\ (last_op' # last_op /\ last_op'.op = "load_from_file") =>
          FileOf(last_op'.src).exists]_vars

\* load_from_file has just failed on a graph with a shape
C12_Witness ==
  /\ last_op.op = "load_failed"
  /\ Len(model.all_nodes) >= 2
  /\ Len(model.owned_shapes) >= 1
  /\ \E n \in DOMAIN nodes : nodes[n].shape # NULL

(***************************************************************************)
(* Properties of the pool of shapes                                        *)
(***************************************************************************)
\* the nodes of the tree that refer to the shape sh
NodesOfShape(sh) ==
  {n \in Range(collect(nodes, model.root)) : nodes[n].shape = sh}

\* C13: every shape in owned_shapes is the shape of exactly one node of the
\* tree
C13_EachShapeHasOneNode ==
  model # NoModel =>
     \A i \in 1..Len(model.owned_shapes) :
        Cardinality(NodesOfShape(model.owned_shapes[i])) = 1

(***************************************************************************)
(* Properties of save_to_file and load_from_file                           *)
(***************************************************************************)
RECURSIVE TreeSize(_, _)
RECURSIVE TreeSizes(_, _, _)
\* the number of nodes in the subtrees of the first k nodes of cs
TreeSizes(ns, cs, k) ==
  IF k = 0 THEN 0 ELSE TreeSizes(ns, cs, k - 1) + TreeSize(ns, cs[k])

\* the number of nodes in the subtree of n
TreeSize(ns, n) == 1 + TreeSizes(ns, ns[n].children, Len(ns[n].children))

\* c lists the tree of root in pre-order: the root first, and the k-th child
\* of the node at place i right after the subtrees of the children before it
IsPreOrder(ns, c, root) ==
  /\ Len(c) = TreeSize(ns, root)
  /\ c[1] = root
  /\ \A i \in 1..Len(c) :
        \A k \in 1..Len(ns[c[i]].children) :
           /\ i + 1 + TreeSizes(ns, ns[c[i]].children, k - 1) <= Len(c)
           /\ c[i + 1 + TreeSizes(ns, ns[c[i]].children, k - 1)] = ns[c[i]].children[k]

\* the step is a call of save_to_file
SaveStep == last_op' # last_op /\ last_op'.op = "save_to_file"

\* C14: save_to_file writes one line per node in pre-order; the line of the
\* root is the first, with type -1 and parent index -1; every other line
\* has the shape type of its node and the 0-based index of the line of its
\* parent, which is smaller than its own; the graph is left as it was
C14_SaveWritesPreOrder ==
  [][SaveStep =>
       LET c == collect(nodes, model.root)
           L == file'.lines
       IN /\ IsPreOrder(nodes, c, model.root)
          /\ Len(L) = Len(c)
          /\ ParseInt(L[1][1]) = -1
          /\ ParseInt(L[1][2]) = -1
          /\ \A i \in 2..Len(L) :
                /\ ParseInt(L[i][1]) =
                     (IF nodes[c[i]].shape = NULL THEN -1
                      ELSE shapes[nodes[c[i]].shape].shapetype)
                /\ ParseInt(L[i][2]) \in 0..(i - 2)
                /\ c[ParseInt(L[i][2]) + 1] = nodes[c[i]].parent
          /\ nodes' = nodes
          /\ shapes' = shapes
          /\ model' = model]_vars

\* a tree has been saved whose pre-order is not the order of all_nodes
C14_Witness ==
  /\ last_op.op = "save_to_file"
  /\ Len(file.lines) >= 4
  /\ collect(nodes, model.root) # model.all_nodes

\* the graph is the result of loading the hand-written file
LoadedWritten == last_op.op = "load_from_file" /\ last_op.src = "written"

\* a line of the format: 15 fields, each a number, the first two whole
HasFormat(line) ==
  /\ Len(line) = 15
  /\ \A i \in 1..15 : IsNumText(line[i])
  /\ IsIntText(line[1])
  /\ IsIntText(line[2])

\* the shape type of node n, or -1
TypeOf(n) ==
  IF nodes[n].shape = NULL THEN -1 ELSE shapes[nodes[n].shape].shapetype

\* the node n has the type that load_from_file gives a line of type t
MadeOfType(n, t) == TypeOf(n) = (IF t \in ShapeTypes THEN t ELSE -1)

\* C15: load_from_file returns true whatever the lines are, makes no node of
\* a line that has not the 15 numbers of the format, and makes a node of
\* every line that has them, in the order of the lines
C15_MalformedLinesSkipped ==
  LoadedWritten =>
     LET good == SelectSeq(file.lines, HasFormat)
     IN /\ Len(model.all_nodes) = 1 + Len(good)
        /\ \A k \in 1..Len(good) :
              MadeOfType(model.all_nodes[k + 1], ParseInt(good[k][1]))

(***************************************************************************)
(* Properties of remove_node with a node of another graph                  *)
(***************************************************************************)
\* the step is a call of remove_node of this graph on the node `node`
RemoveCall(node) ==
  /\ last_op' # last_op
  /\ last_op'.op = "remove_node"
  /\ last_op'.node = node

\* C16: remove_node of a node that is not in all_nodes of this graph changes
\* nothing: not this graph, and not the graph that the node is in
C16_RemoveAbsentIsIgnored ==
  [][\A node \in DOMAIN nodes \ Range(model.all_nodes) :
       RemoveCall(node) =>
         /\ model' = model
         /\ other' = other
         /\ nodes' = nodes
         /\ shapes' = shapes]_vars

(***************************************************************************)
(* Properties of the keys of the editor                                    *)
(***************************************************************************)
\* the step is a + (sign 1) or a - (sign -1) that acts on the current node
DeltaStep(sign) ==
  /\ app_mode = "MODE_MODELLING"
  /\ deltas' = deltas + 1
  /\ last_op' = Op(IF sign = 1 THEN "plus" ELSE "minus", current_node, "", 0)

\* translate(pivot) * D * translate(-pivot) * old, multiplied from the left
\* to the right
Pivoted(D, pivot, old) ==
  MatMul(MatMul(MatMul(translate(Mat4Identity, pivot), D),
                translate(Mat4Identity, VecNeg(pivot))),
         old)

\* the vector with f at the place of the axis and rest elsewhere
OnAxis(f, rest, axis) == [i \in 1..3 |-> IF i = axis THEN f ELSE rest]

\* C17: a + or - on the current node changes only the matrix of the
\* transform mode, and only on that node: the rotation becomes
\* translate(pivot) * rotate * translate(-pivot) * rotation, the scale
\* becomes translate(pivot) * scale * translate(-pivot) * scale, and the
\* translation becomes translation * translate(offset); the two other
\* matrices, the colour, every other node, all_nodes and owned_shapes stay
C17_DeltaChangesOneMatrix ==
  [][\A sign \in {1, -1} :
       DeltaStep(sign) =>
         LET n     == current_node
             pivot == compute_shape_centroid(TheWorld, n)
             old   == nodes[n]
             new   == nodes'[n]
         IN /\ DOMAIN nodes' = DOMAIN nodes
            /\ \A m \in DOMAIN nodes \ {n} : nodes'[m] = nodes[m]
            /\ model' = model
            /\ shapes' = shapes
            /\ new.color = old.color
            /\ new.shape = old.shape
            /\ new.parent = old.parent
            /\ new.children = old.children
            /\ trans_mode # "TM_ROT" => new.rotation = old.rotation
            /\ trans_mode # "TM_TRANS" => new.translation = old.translation
            /\ trans_mode # "TM_SCALE" => new.scale = old.scale
            /\ (trans_mode = "TM_ROT" /\ axis_mode \in 1..3) =>
                 new.rotation =
                   Pivoted(rotate(Mat4Identity,
                                  radians(<<sign * 5, 1>>),
                                  OnAxis(FOne, FZero, axis_mode)),
                           pivot, old.rotation)
            /\ (trans_mode = "TM_SCALE" /\ axis_mode \in 1..3) =>
                 new.scale =
                   Pivoted(scale(Mat4Identity,
                                 OnAxis(IF sign = 1 THEN ScaleUp ELSE ScaleDown,
                                        FOne, axis_mode)),
                           pivot, old.scale)
            /\ (trans_mode = "TM_TRANS" /\ axis_mode \in 1..3) =>
                 new.translation =
                   MatMul(old.translation,
                          translate(Mat4Identity,
                                    OnAxis(<<sign * 13421773, -27>>, FZero,
                                           axis_mode)))]_vars

\* a sphere, whose pivot is not the origin, has been scaled twice
C17_Witness ==
  /\ app_mode = "MODE_MODELLING"
  /\ trans_mode = "TM_SCALE"
  /\ axis_mode \in 1..3
  /\ deltas = 2
  /\ last_op = Op("minus", current_node, "", 0)
  /\ current_node # NULL
  /\ nodes[current_node].shape # NULL
  /\ shapes[nodes[current_node].shape].shapetype = SPHERE_SHAPE
  /\ nodes[current_node].scale[4] # Mat4Identity[4]

\* C18: current_node is null or a live node in all_nodes of the current
\* model, and after a removal it is not the root
C18_CurrentNodeIsLive ==
  /\ current_node # NULL =>
       /\ model # NoModel
       /\ current_node \in DOMAIN nodes
       /\ current_node \in Range(model.all_nodes)
  /\ last_op.op = "remove_node" => current_node # model.root

\* key 5 has removed the last node of a loaded graph, and the node before it
\* in all_nodes is the current node
C18_Witness ==
  /\ last_op.op = "remove_node"
  /\ current_node # NULL
  /\ Len(model.all_nodes) >= 2

\* C19: after load_from_file of any file, the graph is one tree under the
\* fresh root, made of the root and one node for each line that was read,
\* in the order of the lines; the parent of the node of a line is the entry
\* parentIdx of the list of the root and the nodes of the lines read before
\* it, or the root when parentIdx is negative or not yet in the list; no node
\* and no shape of the graph before the load is left
C19_LoadBuildsOneTree ==
  LoadedWritten =>
     LET made == SelectSeq(file.lines, LineParses)
         an   == model.all_nodes
     IN /\ Len(an) = 1 + Len(made)
        /\ Cardinality(Range(an)) = Len(an)
        /\ an[1] = model.root
        /\ nodes[model.root].parent = NULL
        /\ \A k \in 1..Len(made) :
              /\ nodes[an[k + 1]].parent =
                   (IF ParseInt(made[k][2]) >= 0 /\ ParseInt(made[k][2]) < k
                    THEN an[ParseInt(made[k][2]) + 1] ELSE model.root)
              /\ \E j \in 1..k : an[j] = nodes[an[k + 1]].parent
              /\ MadeOfType(an[k + 1], ParseInt(made[k][1]))
        /\ IsPreOrder(nodes, collect(nodes, model.root), model.root)
        /\ Range(collect(nodes, model.root)) = Range(an)
        /\ DOMAIN nodes = Range(an)
        /\ DOMAIN shapes = Range(model.owned_shapes)
        /\ Len(model.owned_shapes) =
             Len(SelectSeq(made, LAMBDA l : ParseInt(l[1]) \in ShapeTypes))

\* a file has been loaded with a parent index that is not yet in the list,
\* a negative one with an unknown type, and one that names an earlier line
C19_Witness ==
  /\ LoadedWritten
  /\ Len(file.lines) = 3
  /\ Len(model.all_nodes) = 4
  /\ ParseInt(file.lines[1][2]) >= 1
  /\ ParseInt(file.lines[2][2]) < 0
  /\ ParseInt(file.lines[2][1]) \notin ShapeTypes
  /\ nodes[model.all_nodes[4]].parent = model.all_nodes[2]

====
